---- MODULE Spec2Model ----
(***************************************************************************)
(* Model of main.py: task intake (handle_task), the background workflow    *)
(* (process_task_background, build_initial_application,                     *)
(* revise_existing_application), the file writer (push_files_to_repo), the *)
(* two generator adapters and the notifier (ping_evaluation_server),       *)
(* running against one remote repository.                                   *)
(***************************************************************************)
EXTENDS Integers, Sequences, FiniteSets, TLC

\* ------------------------------------------------------------------ bounds
\* requests served by one worker, one after the other
MaxReq == 2
\* longest "files" list the generator returns
MaxFiles == 2
\* out-of-band deletions of a remote file by another party
MaxEnv == 1
\* largest max_retries the notifier is called with on its own
MaxRetriesArg == 4
\* background workers (threadpool threads running process_task_background)
NumWorkers == 2

\* --------------------------------------------------------------- constants
\* default of the parameter max_retries
DefaultMaxRetries == 3
\* round handed to push_files_to_repo by build_initial_application
CreationRound == 1
\* default of data.get("round", 2) in revise_existing_application
DefaultRevisionRound == 2

Workers == 1..NumWorkers
\* the worker of the sequential specification
Main == CHOOSE w \in Workers : \A v \in Workers : w <= v

NoSha == 0
Recognized == {"index.html", "README.md"}
AllNames == Recognized \cup {"script.js"}
required_files == <<"index.html", "README.md">>
key_files == <<"index.html", "README.md">>
required_fields == <<"email", "task", "brief", "evaluation_url">>
FieldSet == {required_fields[i] : i \in 1..Len(required_fields)}
\* a round of 0 stands for a request without the key "round"
Rounds == {0, 1, 2}
\* action hints of the generator; "none" stands for an entry without the key
Hints == {"none", "update", "create"}
GenContents == {"x"}
\* status codes of the evaluation server; 0 stands for a network exception
Statuses == {0, 200, 201, 202, 500}

VARIABLES
    repoExists,   \* the repository exists on the host
    remote,       \* AllNames -> [present, sha, empty]: the files of the repository
    nextSha,      \* the next fresh revision token the host hands out
    pagesEnabled, \* static hosting is enabled
    env,          \* out-of-band deletions so far
    served,       \* requests handled so far
    run,          \* Workers -> the request and the locals of its background run
    notifier      \* a call of ping_evaluation_server on its own

vars == <<repoExists, remote, nextSha, pagesEnabled, env, served, run, notifier>>
remoteVars == <<repoExists, remote, nextSha, pagesEnabled>>

\* ------------------------------------------------------------- the notifier
IsAccepted(status) == status \in {200, 201, 202}

RECURSIVE Pow2(_)
Pow2(n) == IF n = 0 THEN 1 ELSE 2 * Pow2(n - 1)

\* entering the for loop: range(max_retries) is empty for max_retries = 0
PingEnter(max) ==
    [max |-> max, attempt |-> 0, posts |-> 0, waits |-> <<>>,
     state |-> IF max = 0 THEN "returned" ELSE "loop",
     result |-> FALSE]

\* the post without the try/except around it
PostOutcomeUncaught(status) == IF status = 0 THEN "raised" ELSE "response"

\* an exception of requests.post is swallowed by "except Exception: pass"
PostOutcome(status) == IF status = 0 THEN "caught" ELSE "response"

\* a backoff that grows by one time unit per attempt
BackoffLinear(attempt) == attempt + 1

\* the wait after failed attempt number attempt (0-indexed)
Backoff(attempt) == Pow2(attempt)

\* one iteration of the loop: the post, and the sleep after a failure
PingStep(p, status) ==
    IF PostOutcome(status) = "raised"
    THEN [p EXCEPT !.posts = @ + 1, !.state = "raised"]
    ELSE IF PostOutcome(status) = "response" /\ IsAccepted(status)
    THEN [p EXCEPT !.posts = @ + 1, !.state = "returned", !.result = TRUE]
    ELSE [p EXCEPT !.posts = @ + 1,
                   !.waits = Append(@, Backoff(p.attempt)),
                   !.attempt = @ + 1,
                   !.state = IF p.attempt + 1 < p.max THEN "loop" ELSE "returned"]

NoPing == [max |-> 0, attempt |-> 0, posts |-> 0, waits |-> <<>>,
           state |-> "idle", result |-> FALSE]

\* ---------------------------------------------------------- the remote host
NoFile == [present |-> FALSE, sha |-> NoSha, empty |-> FALSE]

\* get_file_content_from_repo: (content, sha), or ("", None) on a non-200
ReadFile(name) ==
    IF repoExists /\ remote[name].present
    THEN [content |-> IF remote[name].empty THEN "" ELSE "x", sha |-> remote[name].sha]
    ELSE [content |-> "", sha |-> NoSha]

\* a host that takes a PUT whatever token it carries
PutAcceptedAnyToken(name, sha) == repoExists

\* the host's answer to PUT contents/<name> with the payload's sha (NoSha: none)
PutAccepted(name, sha) ==
    /\ repoExists
    /\ IF sha = NoSha THEN ~remote[name].present
       ELSE remote[name].present /\ remote[name].sha = sha

\* ------------------------------------------------------ generator adapters
GenEntries == [name : AllNames, action : Hints, content : GenContents]
\* the "files" lists a well-formed generator answer may hold
GenOutputs == UNION {[1..n -> GenEntries] : n \in 0..MaxFiles}

\* an adapter that keeps every entry of the output
IsAnyName(item) == item.name \in AllNames

IsRecognized(item) == item.name \in Recognized

\* write_code_with_llm: keeps name and content of the recognized entries
WriteFilter(out) ==
    LET kept == SelectSeq(out, IsRecognized)
    IN  [i \in 1..Len(kept) |->
            [name |-> kept[i].name, content |-> kept[i].content,
             action |-> "none", sha |-> NoSha]]

\* update_code_with_llm: sha_map is the token of every file of existing_files
UpdateEntry(f, sha_map) ==
    LET action == IF f.action = "none" THEN "update" ELSE f.action
    IN  [name |-> f.name, content |-> f.content, action |-> action,
         sha |-> IF action = "update" /\ sha_map[f.name] # NoSha
                 THEN sha_map[f.name] ELSE NoSha]

UpdateFilter(out, sha_map) ==
    LET kept == SelectSeq(out, IsRecognized)
    IN  [i \in 1..Len(kept) |-> UpdateEntry(kept[i], sha_map)]

\* revise_existing_application, "Ensure each file has the proper SHA"
EnsureSha(file, existing) ==
    LET action == IF file.action = "none" THEN "update" ELSE file.action
    IN  [file EXCEPT !.action = action,
                     !.sha = IF action = "update" /\ file.sha = NoSha
                             THEN existing[file.name] ELSE file.sha]

EnsureShas(files, existing) ==
    [i \in 1..Len(files) |-> EnsureSha(files[i], existing)]

\* -------------------------------------------------------- push_files_to_repo
DefaultAction(round) == IF round = CreationRound THEN "create" ELSE "update"

\* an action taken from the round alone, whatever the entry says
FileActionByRound(file, round) == DefaultAction(round)

FileAction(file, round) ==
    IF file.action # "none" THEN file.action ELSE DefaultAction(round)

NeedsReread(action, sha) == action = "update" /\ sha = NoSha

\* a re-read without the fall back to create
ResolveKeepUpdate(action, current_sha) == [action |-> action, sha |-> current_sha]

\* the outcome of "attempting to retrieve it": (file_action, file_sha)
Resolve(action, current_sha) ==
    IF current_sha # NoSha
    THEN [action |-> action, sha |-> current_sha]
    ELSE [action |-> "create", sha |-> NoSha]

\* the sha of the payload: included for an update that has one
PayloadSha(action, sha) == IF action = "update" /\ sha # NoSha THEN sha ELSE NoSha

\* ---------------------------------------------------------------- requests
NoResp == [code |-> 0, task |-> "", round |-> 0, status |-> "", detail |-> ""]

MissingFields(present) ==
    SelectSeq(required_fields, LAMBDA f : f \notin present)

\* a validation that also demands the key "round"
RespondRoundRequired(secretOk, present, round) ==
    IF ~secretOk
    THEN [code |-> 401, task |-> "", round |-> 0, status |-> "",
          detail |-> "Invalid secret"]
    ELSE IF MissingFields(present) # <<>> \/ round = 0
    THEN [code |-> 400, task |-> "", round |-> 0, status |-> "",
          detail |-> IF MissingFields(present) # <<>>
                     THEN Head(MissingFields(present)) ELSE "round"]
    ELSE [code |-> 200, task |-> "task", round |-> round,
          status |-> "processing", detail |-> ""]

\* handle_task: the response to a request
Respond(secretOk, present, round) ==
    IF ~secretOk
    THEN [code |-> 401, task |-> "", round |-> 0, status |-> "",
          detail |-> "Invalid secret"]
    ELSE IF MissingFields(present) # <<>>
    THEN [code |-> 400, task |-> "", round |-> 0, status |-> "",
          detail |-> Head(MissingFields(present))]
    ELSE [code |-> 200, task |-> "task", round |-> round,
          status |-> "processing", detail |-> ""]

\* the field sets of the requests: complete, one field missing, all missing
PresentSets == {FieldSet, {}} \cup {FieldSet \ {f} : f \in FieldSet}

\* the requests sent to handle_task; the round varies on the complete ones,
\* a wrong secret comes with all the fields or with none
Requests ==
    {req \in [secretOk : BOOLEAN, present : PresentSets, round : Rounds] :
        /\ (~req.secretOk \/ req.present # FieldSet) => req.round = 1
        /\ ~req.secretOk => req.present \in {FieldSet, {}}}

NoShas == [n \in AllNames |-> NoSha]

IdleRun ==
    [pc |-> "idle", secretOk |-> FALSE, present |-> {}, round |-> 0,
     resp |-> NoResp,
     repo_exists |-> FALSE, has_required_files |-> FALSE, path |-> "none",
     ci |-> 0, existing |-> NoShas,
     outNames |-> <<>>, files |-> <<>>, pushRound |-> 0, idx |-> 0,
     file_action |-> "none", file_sha |-> NoSha,
     lastRead |-> NoShas, writes |-> <<>>, ping |-> NoPing,
     trace |-> <<>>, result |-> "none", failedAt |-> "none",
     hadBoth |-> FALSE, envAtStart |-> 0, afterFailedCreation |-> FALSE]

Finished == {"idle", "rejected", "done", "failed"}

TypeOK ==
    /\ repoExists \in BOOLEAN
    /\ pagesEnabled \in BOOLEAN
    /\ nextSha \in Nat
    /\ env \in 0..MaxEnv
    /\ served \in 0..MaxReq
    /\ \A n \in AllNames : remote[n].sha < nextSha

InitRemotes ==
    {[n \in AllNames |->
        IF n = "index.html" THEN [present |-> f[1] # "absent", sha |-> IF f[1] # "absent" THEN 1 ELSE NoSha, empty |-> f[1] = "empty"]
        ELSE IF n = "README.md" THEN [present |-> f[2] # "absent", sha |-> IF f[2] # "absent" THEN 2 ELSE NoSha, empty |-> f[2] = "empty"]
        ELSE NoFile] :
     f \in {"absent", "empty", "full"} \X {"absent", "empty", "full"}}

Init ==
    /\ repoExists \in BOOLEAN
    /\ remote \in InitRemotes
    /\ repoExists = FALSE => remote = [n \in AllNames |-> NoFile]
    /\ nextSha = 3
    /\ pagesEnabled = FALSE
    /\ env = 0
    /\ served = 0
    /\ run = [w \in Workers |-> IdleRun]
    /\ notifier = [p |-> NoPing, statuses |-> <<>>]

\* an exception that leaves process_task_background
FailPropagates(r, step) == [r EXCEPT !.pc = "crashed", !.failedAt = step]

\* "except Exception" of process_task_background: logged, the task ends
Fail(r, step) == [r EXCEPT !.pc = "failed", !.failedAt = step]

Called(r, call) == [r EXCEPT !.trace = Append(@, call)]

\* add_task called ahead of the validation
AddTaskFirst(resp) == "scheduled"

\* handle_task: add_task is reached only past both checks
AfterValidation(resp) == IF resp.code = 200 THEN "scheduled" ELSE "rejected"

\* the run before this request was a Creation-path run that created the
\* repository and failed at a later step
FailedAfterCreation(r) ==
    /\ r.path = "create" /\ r.pc = "failed"
    /\ r.failedAt \in {"put", "pages", "commit", "payload"}

\* handle_task on one of the requests reqs: validation, add_task, response
HandleTaskOf(w, reqs) ==
    /\ run[w].pc \in Finished
    /\ served < MaxReq
    /\ \E req \in reqs :
         LET resp == Respond(req.secretOk, req.present, req.round)
         IN  run' = [run EXCEPT ![w] =
                 [IdleRun EXCEPT !.secretOk = req.secretOk,
                                 !.present = req.present,
                                 !.round = req.round, !.resp = resp,
                                 !.afterFailedCreation =
                                     resp.code = 200 /\ FailedAfterCreation(run[w]),
                                 !.pc = AfterValidation(resp)]]
    /\ served' = served + 1
    /\ UNCHANGED <<remoteVars, env, notifier>>

HandleTask(w) == HandleTaskOf(w, Requests)

\* ------------------------------------------------- process_task_background
BothPresent ==
    repoExists /\ \A n \in Recognized : remote[n].present

\* the two branches of the routing swapped
RouteSwapped(repo_exists, has_required_files) ==
    IF repo_exists /\ has_required_files THEN "create" ELSE "revise"

\* the route taken once the classification is known
Route(repo_exists, has_required_files) ==
    IF repo_exists /\ has_required_files THEN "revise" ELSE "create"

Routed(r, repo_exists, has_required_files) ==
    LET path == Route(repo_exists, has_required_files)
    IN  [r EXCEPT !.repo_exists = repo_exists,
                  !.has_required_files = has_required_files,
                  !.path = path, !.ci = 1,
                  !.pc = IF path = "revise" THEN "read_existing" ELSE "gen_create"]

\* the task starts: repository_exists
StartRun(w) ==
    /\ run[w].pc = "scheduled"
    /\ LET r == [Called(run[w], "exists") EXCEPT !.hadBoth = BothPresent,
                                                  !.envAtStart = env]
       IN  \/ run' = [run EXCEPT ![w] =
                 IF repoExists
                 THEN [r EXCEPT !.repo_exists = TRUE, !.ci = 1, !.pc = "check_files"]
                 ELSE Routed(r, FALSE, FALSE)]
           \/ run' = [run EXCEPT ![w] = Fail(r, "classify")]
    /\ UNCHANGED <<remoteVars, env, served, notifier>>

\* "if not content": a file counts as missing when its content is falsy
LooksMissing(content) == content = ""

\* check_repo_has_required_files: one read of the loop
CheckFile(w) ==
    /\ run[w].pc = "check_files"
    /\ LET name == required_files[run[w].ci]
           got == ReadFile(name)
           r == [Called(run[w], "read") EXCEPT !.lastRead[name] = got.sha]
       IN  \/ run' = [run EXCEPT ![w] =
                 IF LooksMissing(got.content) THEN Routed(r, TRUE, FALSE)
                 ELSE IF r.ci < Len(required_files) THEN [r EXCEPT !.ci = @ + 1]
                 ELSE Routed(r, TRUE, TRUE)]
           \/ run' = [run EXCEPT ![w] = Fail(Called(run[w], "read"), "classify")]
    /\ UNCHANGED <<remoteVars, env, served, notifier>>

\* revise_existing_application: one read of "Fetch existing files"
ReadExisting(w) ==
    /\ run[w].pc = "read_existing"
    /\ LET name == key_files[run[w].ci]
           got == ReadFile(name)
           r == [Called(run[w], "read") EXCEPT
                    !.lastRead[name] = got.sha,
                    !.existing[name] = IF got.content # "" THEN got.sha ELSE NoSha]
       IN  \/ run' = [run EXCEPT ![w] =
                 IF r.ci < Len(key_files) THEN [r EXCEPT !.ci = @ + 1]
                 ELSE [r EXCEPT !.pc = "gen_revise"]]
           \/ run' = [run EXCEPT ![w] = Fail(Called(run[w], "read"), "read")]
    /\ UNCHANGED <<remoteVars, env, served, notifier>>

OutNames(out) == [i \in 1..Len(out) |-> out[i].name]

\* a push that always goes on to enable hosting
AfterPushAlwaysPages(r) == [r EXCEPT !.pc = "pages"]

\* a push after which hosting is never enabled
AfterPushSkipsPages(r) == [r EXCEPT !.pc = "commit"]

\* the step after the loop of push_files_to_repo
AfterPush(r) == [r EXCEPT !.pc = IF r.path = "create" THEN "pages" ELSE "commit"]

\* the head of the loop body for file number i: file_action and file_sha
EnterFile(r, i) ==
    IF i > Len(r.files) THEN AfterPush([r EXCEPT !.idx = i])
    ELSE LET action == FileAction(r.files[i], r.pushRound)
             sha == r.files[i].sha
         IN  [r EXCEPT !.idx = i, !.file_action = action, !.file_sha = sha,
                       !.pc = IF NeedsReread(action, sha) THEN "push_reread"
                              ELSE "push_put"]

\* build_initial_application: write_code_with_llm answering one of outs
GenCreateFrom(w, outs) ==
    /\ run[w].pc = "gen_create"
    /\ \/ \E out \in outs :
            run' = [run EXCEPT ![w] =
                [Called(@, "generate") EXCEPT !.outNames = OutNames(out),
                                              !.files = WriteFilter(out),
                                              !.pushRound = CreationRound,
                                              !.pc = "create_repo"]]
       \/ run' = [run EXCEPT ![w] = Fail(Called(@, "generate"), "generate")]
    /\ UNCHANGED <<remoteVars, env, served, notifier>>

GenCreate(w) == GenCreateFrom(w, GenOutputs)

\* the round revise_existing_application hands to push_files_to_repo
RevisionRound(round) == IF round = 0 THEN DefaultRevisionRound ELSE round

\* revise_existing_application: update_code_with_llm answering one of outs,
\* and the sha pass
GenReviseFrom(w, outs) ==
    /\ run[w].pc = "gen_revise"
    /\ \/ \E out \in outs :
            LET r == run[w]
            IN  run' = [run EXCEPT ![w] =
                    EnterFile(
                        [Called(r, "generate") EXCEPT
                            !.outNames = OutNames(out),
                            !.files = EnsureShas(UpdateFilter(out, r.existing),
                                                 r.existing),
                            !.pushRound = RevisionRound(r.round)], 1)]
       \/ run' = [run EXCEPT ![w] = Fail(Called(@, "generate"), "generate")]
    /\ UNCHANGED <<remoteVars, env, served, notifier>>

GenRevise(w) == GenReviseFrom(w, GenOutputs)

\* the host's answer to POST /user/repos: created, or the name is taken
HostCreateStatus == IF repoExists THEN 422 ELSE 201

\* a create_github_repo that goes on whatever the host answered
CreateNeverRaises(status) == FALSE

\* create_github_repo: "if response.status_code != 201: raise"
CreateRaises(status) == status # 201

\* create_github_repo: 201, or an exception
CreateRepo(w) ==
    /\ run[w].pc = "create_repo"
    /\ \E net \in BOOLEAN :
         IF net /\ ~CreateRaises(HostCreateStatus)
         THEN /\ repoExists' = TRUE
              /\ remote' = IF repoExists THEN remote
                           ELSE [n \in AllNames |-> NoFile]
              /\ run' = [run EXCEPT ![w] = EnterFile(Called(@, "createRepo"), 1)]
         ELSE /\ run' = [run EXCEPT ![w] = Fail(Called(@, "createRepo"), "createRepo")]
              /\ UNCHANGED <<repoExists, remote>>
    /\ UNCHANGED <<nextSha, pagesEnabled, env, served, notifier>>

\* push_files_to_repo: "Missing SHA ... attempting to retrieve it"
PushReread(w) ==
    /\ run[w].pc = "push_reread"
    /\ LET name == run[w].files[run[w].idx].name
           got == ReadFile(name)
           res == Resolve(run[w].file_action, got.sha)
       IN  \/ run' = [run EXCEPT ![w] =
                 [Called(@, "reread") EXCEPT !.lastRead[name] = got.sha,
                                             !.file_action = res.action,
                                             !.file_sha = res.sha,
                                             !.pc = "push_put"]]
           \/ run' = [run EXCEPT ![w] = Fail(Called(@, "reread"), "reread")]
    /\ UNCHANGED <<remoteVars, env, served, notifier>>

\* the record of one PUT, with the file's state on the host when it was sent
WriteRecord(r, name) ==
    [name |-> name, action |-> r.file_action,
     sha |-> PayloadSha(r.file_action, r.file_sha),
     present |-> repoExists /\ remote[name].present,
     cur |-> remote[name].sha,
     captured |-> r.existing[name],
     read |-> r.lastRead[name],
     hint |-> r.files[r.idx].action,
     ok |-> FALSE]

\* the sha kept in the file dictionary after a successful create
KeepNewSha(file, action, new_sha) ==
    IF action = "create" /\ file.sha = NoSha THEN [file EXCEPT !.sha = new_sha]
    ELSE file

\* push_files_to_repo: the PUT of one file and the check of its status
PushPut(w) ==
    /\ run[w].pc = "push_put"
    /\ LET r == run[w]
           file == r.files[r.idx]
           rec == WriteRecord(r, file.name)
       IN  \E net \in BOOLEAN :
             IF net /\ PutAccepted(file.name, rec.sha)
             THEN /\ remote' = [remote EXCEPT ![file.name] =
                         [present |-> TRUE, sha |-> nextSha,
                          empty |-> file.content = ""]]
                  /\ nextSha' = nextSha + 1
                  /\ run' = [run EXCEPT ![w] =
                         EnterFile(
                             [Called(r, "put") EXCEPT
                                 !.writes = Append(@, [rec EXCEPT !.ok = TRUE]),
                                 !.files[r.idx] =
                                     KeepNewSha(@, r.file_action, nextSha)],
                             r.idx + 1)]
             ELSE /\ run' = [run EXCEPT ![w] =
                         Fail([Called(r, "put") EXCEPT !.writes = Append(@, rec)],
                              "put")]
                  /\ UNCHANGED <<remote, nextSha>>
    /\ UNCHANGED <<repoExists, pagesEnabled, env, served, notifier>>

\* enable_github_pages: 201 or 202, or an exception
EnablePages(w) ==
    /\ run[w].pc = "pages"
    /\ \E net \in BOOLEAN :
         IF net /\ repoExists /\ ~pagesEnabled
         THEN /\ pagesEnabled' = TRUE
              /\ run' = [run EXCEPT ![w] = [Called(@, "pages") EXCEPT !.pc = "commit"]]
         ELSE /\ run' = [run EXCEPT ![w] = Fail(Called(@, "pages"), "pages")]
              /\ UNCHANGED pagesEnabled
    /\ UNCHANGED <<repoExists, remote, nextSha, env, served, notifier>>

\* get_sha_of_latest_commit, then the evaluation payload: data["round"]
LatestCommit(w) ==
    /\ run[w].pc = "commit"
    /\ \E net \in BOOLEAN :
         run' = [run EXCEPT ![w] =
             IF ~(net /\ repoExists) THEN Fail(Called(@, "commit"), "commit")
             ELSE IF @.round = 0 THEN Fail(Called(@, "commit"), "payload")
             ELSE [Called(@, "commit") EXCEPT
                      !.ping = PingEnter(DefaultMaxRetries), !.pc = "notify"]]
    /\ UNCHANGED <<remoteVars, env, served, notifier>>

\* a run that raises when the notification was not delivered
FinishRaisesUndelivered(r) ==
    IF r.ping.state = "raised" THEN Fail(r, "notify")
    ELSE IF r.ping.state = "returned"
    THEN IF r.ping.result THEN [r EXCEPT !.pc = "done", !.result = "success"]
         ELSE Fail(r, "notify")
    ELSE r

\* the return value of both paths after ping_evaluation_server
Finish(r) ==
    IF r.ping.state = "raised" THEN Fail(r, "notify")
    ELSE IF r.ping.state = "returned"
    THEN [r EXCEPT !.pc = "done", !.result = "success"]
    ELSE r

\* ping_evaluation_server inside a run: one attempt
Notify(w) ==
    /\ run[w].pc = "notify"
    /\ run[w].ping.state = "loop"
    /\ \E status \in Statuses :
         run' = [run EXCEPT ![w] =
             Finish([Called(@, "post") EXCEPT !.ping = PingStep(@, status)])]
    /\ UNCHANGED <<remoteVars, env, served, notifier>>

\* another party deletes a file of the repository
EnvDelete ==
    /\ env < MaxEnv
    /\ repoExists
    /\ \E n \in Recognized :
         /\ remote[n].present
         /\ remote' = [remote EXCEPT ![n] = NoFile]
    /\ env' = env + 1
    /\ UNCHANGED <<repoExists, nextSha, pagesEnabled, served, run, notifier>>

Step(w) ==
    \/ HandleTask(w)
    \/ StartRun(w)
    \/ CheckFile(w)
    \/ ReadExisting(w)
    \/ GenCreate(w)
    \/ GenRevise(w)
    \/ CreateRepo(w)
    \/ PushReread(w)
    \/ PushPut(w)
    \/ EnablePages(w)
    \/ LatestCommit(w)
    \/ Notify(w)

Next == Step(Main) \/ EnvDelete

Spec == Init /\ [][Next]_vars

\* ------------------------------------- ping_evaluation_server on its own
\* a call of ping_evaluation_server(url, payload, max_retries)
PingCall ==
    /\ notifier.p.state # "loop"
    /\ \E max \in 0..MaxRetriesArg :
         notifier' = [p |-> PingEnter(max), statuses |-> <<>>]
    /\ UNCHANGED <<remoteVars, env, served, run>>

\* one attempt of the call, answered with a status or cut by an exception
PingPost ==
    /\ notifier.p.state = "loop"
    /\ \E status \in Statuses :
         notifier' = [p |-> PingStep(notifier.p, status),
                      statuses |-> Append(notifier.statuses, status)]
    /\ UNCHANGED <<remoteVars, env, served, run>>

NextPing == PingCall \/ PingPost

SpecPing == Init /\ [][NextPing]_vars

\* ------------------------------ two tasks of process_task_background at once
\* handle_task is served by a thread pool and add_task runs the task after
\* the response: the tasks of two requests run side by side
Second == CHOOSE w \in Workers \ {Main} : \A v \in Workers \ {Main} : w <= v

Pair == {Main, Second}

\* the requests of the two tasks: accepted, of the revision round
ConcRequests ==
    {req \in Requests :
        req.secretOk /\ req.present = FieldSet /\ req.round = DefaultRevisionRound}

\* the generator answers of the two tasks: recognized names, each once
ConcOutputs ==
    {out \in GenOutputs :
        /\ \A i \in 1..Len(out) : IsRecognized(out[i]) /\ out[i].action # "none"
        /\ \A i, j \in 1..Len(out) : out[i].name = out[j].name => i = j}

\* one request for each task of the pair
ConcHandle(w) == run[w].pc = "idle" /\ HandleTaskOf(w, ConcRequests)

StepConc(w) ==
    \/ ConcHandle(w)
    \/ StartRun(w)
    \/ CheckFile(w)
    \/ ReadExisting(w)
    \/ GenCreateFrom(w, ConcOutputs)
    \/ GenReviseFrom(w, ConcOutputs)
    \/ CreateRepo(w)
    \/ PushReread(w)
    \/ PushPut(w)
    \/ EnablePages(w)
    \/ LatestCommit(w)
    \/ Notify(w)

NextConc == (\E w \in Pair : StepConc(w)) \/ EnvDelete

\* the repository is absent, or holds both required files
InitConc ==
    /\ Init
    /\ repoExists => \A n \in Recognized : remote[n].present /\ ~remote[n].empty

SpecConc == InitConc /\ [][NextConc]_vars

\* ------------------------------------------------------------------ claims
Classified(r) == r.path # "none"

WriteIdx(r) == 1..Len(r.writes)

\* C1: a run of a round-1 task that found no repository takes the Creation
\* path, and every write it sends has action create and no token.
C1_CreationWritesCreate ==
    \A w \in Workers :
        LET r == run[w]
        IN  (r.round = 1 /\ Classified(r) /\ ~r.repo_exists) =>
                /\ r.path = "create"
                /\ \A i \in WriteIdx(r) :
                       r.writes[i].action = "create" /\ r.writes[i].sha = NoSha

C1_Witness ==
    \E w \in Workers :
        LET r == run[w]
        IN  /\ r.round = 1 /\ ~r.repo_exists /\ r.pc = "done"
            /\ Len(r.writes) = 2
            /\ \A i \in WriteIdx(r) : r.writes[i].ok

\* C2: a run that finds the repository with both index.html and README.md
\* present (whatever their content) and is not disturbed takes the Revision
\* path.
C2_BothFilesRevise ==
    \A w \in Workers :
        LET r == run[w]
        IN  (Classified(r) /\ r.hadBoth /\ r.envAtStart = env) => r.path = "revise"

\* C3: every write sent with action update carries a token, and the token is
\* the one most recently read from the host for that file in the run.
C3_UpdateCarriesLastRead ==
    \A w \in Workers :
        \A i \in WriteIdx(run[w]) :
            LET wr == run[w].writes[i]
            IN  wr.action = "update" => (wr.sha # NoSha /\ wr.sha = wr.read)

\* an accepted update whose token came from the re-read of push_files_to_repo
C3_Witness ==
    \E w \in Workers :
        \E i \in WriteIdx(run[w]) :
            LET wr == run[w].writes[i]
            IN  /\ wr.action = "update" /\ wr.ok
                /\ wr.captured = NoSha /\ wr.sha = wr.read

\* C4: on the Revision path a file whose token was captured by the read for
\* generation and that is gone from the host when it is written is written
\* with action create, without a token, and the write succeeds.
C4_DeletedDegradesToCreate ==
    \A w \in Workers :
        \A i \in WriteIdx(run[w]) :
            LET wr == run[w].writes[i]
            IN  (run[w].path = "revise" /\ wr.captured # NoSha /\ ~wr.present) =>
                    (wr.action = "create" /\ wr.sha = NoSha /\ wr.ok)

\* C5: with no other writer, no write of a Revision-path run carries a token
\* older than the latest write to its file: the token sent is the file's
\* current one.
C5_NoStaleToken ==
    \A w \in Workers :
        \A i \in WriteIdx(run[w]) :
            LET wr == run[w].writes[i]
            IN  (run[w].path = "revise" /\ env = 0 /\ wr.sha # NoSha) =>
                    wr.sha = wr.cur

Accepted == {200, 201, 202}

\* C6: the notifier stops at the first attempt answered 200, 201 or 202 and
\* returns true: success on attempt k means exactly k attempts, the waits
\* 1, 2, ..., 2^(k-2) between them, and no attempt after it.
C6_StopsAtFirstSuccess ==
    LET p == notifier.p
        st == notifier.statuses
        k == Len(st)
    IN  /\ p.posts = k
        /\ k <= p.max
        /\ \A i \in 1..k : st[i] \in Accepted => i = k
        /\ (k > 0 /\ st[k] \in Accepted) =>
               /\ p.state = "returned" /\ p.result = TRUE
               /\ p.waits = [i \in 1..(k - 1) |-> Pow2(i - 1)]
        /\ p.result = TRUE => (k > 0 /\ st[k] \in Accepted)

C6_Witness ==
    /\ notifier.p.state = "returned" /\ notifier.p.result = TRUE
    /\ notifier.p.posts = 3 /\ notifier.p.waits = <<1, 2>>
    /\ Len(notifier.statuses) = 3
    /\ notifier.statuses[1] \notin Accepted /\ notifier.statuses[2] \notin Accepted

\* C7: against a callback that fails on every attempt the notifier called
\* with max_retries = n makes exactly n attempts, returns false and never
\* raises.
C7_ExhaustionReturnsFalse ==
    LET p == notifier.p
        st == notifier.statuses
    IN  /\ p.state # "raised"
        /\ (p.state = "returned" /\ \A i \in 1..Len(st) : st[i] \notin Accepted) =>
               (p.result = FALSE /\ p.posts = p.max /\ Len(st) = p.max)
        /\ (p.state = "loop" /\ \A i \in 1..Len(st) : st[i] \notin Accepted) =>
               p.posts < p.max

C7_Witness ==
    /\ notifier.p.state = "returned" /\ notifier.p.result = FALSE
    /\ notifier.p.max = 3 /\ notifier.p.posts = 3
    /\ notifier.statuses = <<0, 500, 0>>

RecognizedNames(names) == SelectSeq(names, LAMBDA n : n \in {"index.html", "README.md"})

Generated(r) == "generate" \in {r.trace[i] : i \in 1..Len(r.trace)} /\ r.failedAt # "generate"

PushCompleted(r) == r.pc \in {"pages", "commit", "notify", "done"} \/ r.failedAt \in {"pages", "commit", "payload", "notify"}

\* C8: every name a run writes is index.html or README.md; the entries of the
\* generator output with another name are dropped and the recognized ones
\* reach the write step in order, each written when the writes complete.
C8_OnlyRecognizedWritten ==
    \A w \in Workers :
        LET r == run[w]
            want == RecognizedNames(r.outNames)
        IN  /\ \A i \in WriteIdx(r) :
                   /\ r.writes[i].name \in {"index.html", "README.md"}
                   /\ i <= Len(want) /\ r.writes[i].name = want[i]
            /\ Generated(r) => [i \in 1..Len(r.files) |-> r.files[i].name] = want
            /\ PushCompleted(r) =>
                   /\ Len(r.writes) = Len(want)
                   /\ \A i \in WriteIdx(r) : r.writes[i].ok

C8_Witness ==
    \E w \in Workers :
        LET r == run[w]
        IN  /\ r.pc = "done"
            /\ r.outNames = <<"script.js", "index.html">>
            /\ Len(r.writes) = 1 /\ r.writes[1].name = "index.html" /\ r.writes[1].ok

\* C9: a request with the right secret and the four required fields gets the
\* acknowledgment {task, round, processing}; it is there before any step of
\* the background run and is the same however far the run gets or ends.
C9_AckIndependentOfRun ==
    \A w \in Workers :
        LET r == run[w]
        IN  (r.pc # "idle" /\ r.secretOk /\ r.present = {"email", "task", "brief", "evaluation_url"}) =>
                /\ r.resp = [code |-> 200, task |-> "task", round |-> r.round,
                             status |-> "processing", detail |-> ""]
                /\ r.pc # "rejected"
                /\ r.pc = "scheduled" => r.trace = <<>>

C9_Witness ==
    \E w \in Workers :
        /\ run[w].resp.status = "processing"
        /\ run[w].pc = "failed" /\ run[w].failedAt = "put"

\* C10: a rejected request (401 for a wrong secret, checked first; 400 for a
\* missing field) schedules nothing: no call is ever made on its behalf.
C10_RejectedNeverRuns ==
    \A w \in Workers :
        LET r == run[w]
        IN  /\ (r.pc # "idle" /\ ~r.secretOk) => r.resp.code = 401
            /\ (r.pc # "idle" /\ r.secretOk /\ r.present # {"email", "task", "brief", "evaluation_url"}) =>
                   r.resp.code = 400
            /\ r.resp.code \in {400, 401} =>
                   /\ r.pc = "rejected"
                   /\ r.trace = <<>> /\ r.writes = <<>> /\ r.ping.posts = 0

C10_Witness ==
    \E w \in Workers :
        /\ run[w].pc = "rejected" /\ run[w].resp.code = 401
        /\ run[w].present # {"email", "task", "brief", "evaluation_url"}
        /\ served = MaxReq

CallSet(r) == {r.trace[i] : i \in 1..Len(r.trace)}

Mutations == {"createRepo", "put", "pages"}

\* C11: when the generator output cannot be parsed, or parses but lacks
\* index.html or README.md, the run makes no mutation of the remote: no
\* repository creation, no file write, no hosting enable.
C11_BadOutputNoMutation ==
    \A w \in Workers :
        LET r == run[w]
            lacks == ~({"index.html", "README.md"} \subseteq
                          {r.outNames[i] : i \in 1..Len(r.outNames)})
        IN  ("generate" \in CallSet(r) /\ (r.failedAt = "generate" \/ lacks)) =>
                (CallSet(r) \cap Mutations = {} /\ r.writes = <<>>)

\* C18: a run issues at most one write per file name, whatever the generator
\* returns.
C18_OneWritePerName ==
    \A w \in Workers :
        \A i, j \in WriteIdx(run[w]) :
            run[w].writes[i].name = run[w].writes[j].name => i = j

\* C19: the notifier waits only between two attempts: called with
\* max_retries = n against a callback that always fails it waits n - 1
\* times and returns false without a wait after the last attempt.
C19_NoWaitAfterLastAttempt ==
    LET p == notifier.p
    IN  (p.state = "returned" /\ p.result = FALSE /\ p.max > 0) =>
            (p.posts = p.max /\ Len(p.waits) = p.max - 1)

\* C20: a Revision-path run never creates a repository and never enables
\* hosting; its only mutations are writes of index.html and README.md.
C20_RevisionOnlyWritesFiles ==
    \A w \in Workers :
        LET r == run[w]
        IN  r.path = "revise" =>
                /\ CallSet(r) \cap {"createRepo", "pages"} = {}
                /\ r.pc \notin {"create_repo", "pages"}
                /\ \A i \in WriteIdx(r) :
                       r.writes[i].name \in {"index.html", "README.md"}

C20_Witness ==
    \E w \in Workers :
        LET r == run[w]
        IN  /\ r.path = "revise" /\ r.pc = "done"
            /\ Len(r.writes) = 2 /\ \A i \in WriteIdx(r) : r.writes[i].ok
            /\ ~pagesEnabled

\* C13: when every notification attempt fails the run still ends with status
\* success, on either path, and what it created, wrote or enabled stays.
C13_UndeliveredStillSuccess ==
    \A w \in Workers :
        LET r == run[w]
        IN  /\ r.ping.state = "returned" => (r.pc = "done" /\ r.result = "success")
            /\ r.pc = "done" =>
                   /\ r.result = "success"
                   /\ repoExists
                   /\ r.path = "create" => pagesEnabled
                   /\ r.envAtStart = env =>
                          \A i \in WriteIdx(r) : remote[r.writes[i].name].present

C13_Witness ==
    \E w \in Workers :
        LET r == run[w]
        IN  /\ r.pc = "done" /\ r.result = "success" /\ r.path = "create"
            /\ r.ping.result = FALSE /\ r.ping.posts = 3
            /\ Len(r.writes) = 2 /\ pagesEnabled

\* C14: the round of the task decides neither the path nor the action and
\* token of a write: both are fixed by the classification, the generator
\* output and the tokens read, so two runs that differ only in the round
\* agree on them.
C14_RoundDecidesNothing ==
    \A w \in Workers :
        LET r == run[w]
        IN  /\ Classified(r) =>
                   r.path = IF r.repo_exists /\ r.has_required_files
                            THEN "revise" ELSE "create"
            /\ \A i \in WriteIdx(r) :
                   LET wr == r.writes[i]
                       expected ==
                           IF r.path = "create" \/ wr.hint = "create"
                           THEN [action |-> "create", sha |-> NoSha]
                           ELSE IF wr.captured # NoSha
                           THEN [action |-> "update", sha |-> wr.captured]
                           ELSE IF wr.read # NoSha
                           THEN [action |-> "update", sha |-> wr.read]
                           ELSE [action |-> "create", sha |-> NoSha]
                   IN  wr.action = expected.action /\ wr.sha = expected.sha

\* a Revision-path run of a task that says round 1, with an accepted update
C14_Witness ==
    \E w \in Workers :
        LET r == run[w]
        IN  /\ r.path = "revise" /\ r.round = 1 /\ r.pc = "done"
            /\ \E i \in WriteIdx(r) : r.writes[i].action = "update" /\ r.writes[i].ok

Rank(call) ==
    CASE call = "exists" -> 1
      [] call = "read" -> 2
      [] call = "generate" -> 3
      [] call = "createRepo" -> 4
      [] call \in {"reread", "put"} -> 5
      [] call = "pages" -> 6
      [] call = "commit" -> 7
      [] call = "post" -> 8

\* C16: the calls of a run come in the order classify, generate, create
\* repository (Creation path), file writes in output order, enable hosting
\* (Creation path), latest commit, notify; a notification is posted only
\* after every write succeeded and the commit was read, never by a run that
\* failed before.
C16_StepOrder ==
    \A w \in Workers :
        LET r == run[w]
            calls == CallSet(r)
        IN  /\ \A i \in 1..(Len(r.trace) - 1) :
                   Rank(r.trace[i]) <= Rank(r.trace[i + 1])
            /\ r.trace # <<>> => r.trace[1] = "exists"
            /\ calls \cap {"createRepo", "reread", "put", "pages", "commit", "post"} # {} =>
                   "generate" \in calls
            /\ (r.path = "create" /\ calls \cap {"put", "pages", "commit", "post"} # {}) =>
                   "createRepo" \in calls
            /\ (r.path = "create" /\ calls \cap {"commit", "post"} # {}) =>
                   "pages" \in calls
            /\ \A i \in WriteIdx(r) : r.writes[i].name = r.files[i].name
            /\ "commit" \in calls =>
                   (Len(r.writes) = Len(r.files) /\ \A i \in WriteIdx(r) : r.writes[i].ok)
            /\ "post" \in calls => ("commit" \in calls /\ r.pc # "failed")
            /\ r.pc = "failed" => "post" \notin calls

C16_Witness ==
    \E w \in Workers :
        /\ run[w].pc = "done"
        /\ run[w].trace = <<"exists", "generate", "createRepo", "put", "put",
                            "pages", "commit", "post", "post">>

\* C12: a failure of any step of a background run is caught inside
\* process_task_background: the run ends failed, nothing leaves it, and the
\* acknowledgment already returned stays as it was.
C12_FailuresCaught ==
    \A w \in Workers :
        LET r == run[w]
        IN  /\ r.pc # "crashed"
            /\ r.failedAt # "none" <=> r.pc = "failed"
            /\ r.pc = "failed" =>
                   /\ r.resp = [code |-> 200, task |-> "task", round |-> r.round,
                                status |-> "processing", detail |-> ""]
                   /\ r.result = "none"
                   /\ r.trace # <<>>

C12_Witness ==
    \E w \in Workers :
        /\ run[w].pc = "failed" /\ run[w].failedAt = "pages"
        /\ run[w].resp.status = "processing"
        /\ Len(run[w].writes) = 2

IsPut(call) == call = "put"

\* C15: when two Revision-path runs interleave on one repository, no update
\* is lost: an accepted PUT that carries a token replaces the version of the
\* file with that token, which is the one the run last read, and an accepted
\* PUT without a token meets no file; a run whose PUT is rejected ends there:
\* the rejected PUT is its last call, it is sent once, and the run sends no
\* notification.
C15_NoLostUpdate ==
    \A w \in Workers :
        LET r == run[w]
        IN  r.path = "revise" =>
                /\ Len(SelectSeq(r.trace, IsPut)) = Len(r.writes)
                /\ \A i \in WriteIdx(r) :
                      LET wr == r.writes[i]
                      IN  /\ (wr.ok /\ wr.sha # NoSha) =>
                                 (wr.present /\ wr.cur = wr.sha /\ wr.read = wr.sha)
                          /\ (wr.ok /\ wr.sha = NoSha) => ~wr.present
                          /\ ~wr.ok =>
                                 /\ i = Len(r.writes)
                                 /\ r.pc = "failed" /\ r.failedAt = "put"
                                 /\ r.trace[Len(r.trace)] = "put"
                                 /\ "post" \notin CallSet(r)

\* two Revision-path runs read the same version of a file; the update of one
\* is accepted, the update of the other, carrying the same token, is rejected
C15_Witness ==
    \E w, v \in Workers :
        /\ w # v
        /\ run[w].path = "revise" /\ run[v].path = "revise"
        /\ \E i \in WriteIdx(run[w]), j \in WriteIdx(run[v]) :
              LET a == run[w].writes[i]
                  b == run[v].writes[j]
              IN  /\ a.name = b.name
                  /\ a.ok /\ ~b.ok
                  /\ a.sha # NoSha /\ b.sha = a.sha
                  /\ b.present /\ b.cur # b.sha

\* C17: after a Creation-path run failed past the creation of the
\* repository, the repository is still there, and the next run, finding a
\* required file missing, takes the Creation path and carries it out as on
\* an absent repository: its create repository step is not what fails.
C17_RetryRunsCreation ==
    \A w \in Workers :
        LET r == run[w]
        IN  r.afterFailedCreation =>
                /\ repoExists
                /\ (Classified(r) /\ ~r.has_required_files) =>
                       (r.repo_exists /\ r.path = "create" /\ r.failedAt # "createRepo")

\* the run got past create_github_repo: the host created the repository
CreatedRepo(r) ==
    /\ r.path = "create"
    /\ "createRepo" \in CallSet(r)
    /\ r.failedAt # "createRepo"

\* C21: of the runs that take the Creation path side by side, at most one
\* has its create repository call accepted; a run whose call is rejected
\* writes no file, does not enable hosting and sends no notification, so
\* the files written on the Creation path come from one run only.
C21_OneCreator ==
    /\ \A w, v \in Workers :
          (CreatedRepo(run[w]) /\ CreatedRepo(run[v])) => w = v
    /\ \A w \in Workers :
          LET r == run[w]
          IN  (r.path = "create" /\ r.failedAt = "createRepo") =>
                  /\ r.writes = <<>>
                  /\ CallSet(r) \cap {"put", "reread", "pages", "commit", "post"} = {}
                  /\ r.pc = "failed"
    /\ \A w, v \in Workers :
          (/\ run[w].path = "create" /\ run[w].writes # <<>>
           /\ run[v].path = "create" /\ run[v].writes # <<>>) => w = v

\* two runs classified the repository as absent; one created it and wrote a
\* file, the create repository call of the other was rejected
C21_Witness ==
    \E w, v \in Workers :
        /\ w # v
        /\ run[w].path = "create" /\ ~run[w].repo_exists
        /\ run[v].path = "create" /\ ~run[v].repo_exists
        /\ CreatedRepo(run[w])
        /\ \E i \in WriteIdx(run[w]) : run[w].writes[i].ok
        /\ run[v].failedAt = "createRepo"

====
